---- MODULE Spec2Model ----
(***************************************************************************)
(* Playback controller of src/app/plex_music_bot.py.                       *)
(*                                                                         *)
(* The bot is one asyncio event loop: a coroutine runs without interruption *)
(* from one suspending await to the next, and coroutines interleave only   *)
(* at those awaits.  Every action below is one such uninterrupted stretch  *)
(* of one handler.  The audio library's after-callback is raised by a      *)
(* worker thread when a player ends (naturally, or through stop()); it     *)
(* schedules play_song(play_next=True) on the loop, and that coroutine's   *)
(* completion schedules disconnect_after.  process_playlist is a task of  *)
(* its own; resolving an entry blocks the loop and is not a suspension.     *)
(*                                                                         *)
(* Library behaviour assumed (discord.py VoiceClient):                     *)
(*   play()       raises when the client is not connected or is playing;   *)
(*                on a paused client it replaces the paused player, whose  *)
(*                after-callback then never fires;                         *)
(*   stop()       ends the player, is_playing()/is_paused() are False at   *)
(*                once, the after-callback follows;                        *)
(*   connect()    registers guild.voice_client before it suspends;         *)
(*   disconnect() stops the player and unregisters the client; on a client *)
(*                that is no longer connected it does nothing.             *)
(***************************************************************************)
EXTENDS Integers, Sequences, FiniteSets, TLC

FullTracks == 2         \* tracks enqueued under Spec, where every command is issued
SeqTracks == 3          \* tracks enqueued under SpecSeq: Enqueue, the sink and the timers
MaxResumes == 1         \* Resume commands that start a track from an idle session
BacklogTracks == 4      \* tracks enqueued under SpecBacklog: Enqueue and the backlog commands
ImportTracks == 3       \* tracks enqueued or resolved under SpecImport
PlaylistLen == 2        \* entries of a playlist
MaxImports == 2         \* playlist imports

None == 0               \* Python None
placeholder_song == 0 - 1   \* the ("placeholder", title, 0, {}) entry of line 1001
MaxTracks == CHOOSE m \in {FullTracks, SeqTracks, BacklogTracks, ImportTracks} :
               \A k \in {FullTracks, SeqTracks, BacklogTracks, ImportTracks} : k <= m
Tracks == 1..MaxTracks
MaxPlays == MaxTracks + MaxResumes   \* successful voice_client.play() calls modelled
Plays == 1..MaxPlays

VARIABLES
  voice_client,         \* guild.voice_client is not None
  player,               \* the voice client's audio player
  queue,                \* music_queue.queue
  playlist_queue,       \* music_queue.playlist_queue
  current_song_title,   \* music_queue.current_song_title (with current_song_duration)
  enq,                  \* play_song(play_called=False) coroutines, one per enqueued track
  adv,                  \* per play: wrapped_play_next's coroutine, then its disconnect_after
                        \* (enq, idle, stale: history of the timer)
  skp,                  \* the skip coroutine
  kil,                  \* the kill coroutine (alone: called by on_voice_state_update)
  res,                  \* the resume coroutine
  imp,                  \* the process_playlist task (n, since, ids: history)
  nextId,               \* next track to be enqueued
  nplays,               \* successful play() calls so far
  resumes,              \* Resume commands that went down the idle path
  exc,                  \* history: the handler whose step just ended with an exception
  killed,               \* history: a kill has completed and nothing has connected since
  pure,                 \* history: only accepted Enqueues, one at a time, and playback-finished events
  fifo,                 \* history: only Enqueues made while a track plays (but the first), the sink, the timers
  scenario,             \* history: stage of the Enqueue, Enqueue, finished, finished script
  obs,                  \* history: the last command and the state it was issued in
  guild                 \* history: the guild in which the last command was issued

vars == <<voice_client, player, queue, playlist_queue, current_song_title,
          enq, adv, skp, kil, res, imp, nextId, nplays, resumes,
          exc, killed, pure, fifo, scenario, obs, guild>>

ghosts == <<pure, fifo, scenario, obs, guild>>

\* voice_client, player and the coroutines above belong to guild 1; the
\* module has one music_queue, whichever guild a command comes from.  Of
\* guild 2 only the commands are modelled whose effect on music_queue does
\* not depend on the state of guild 2's own voice client.
Guilds == 1..2

NoPlayer == [st |-> "none", n |-> 0]
NoAdv == [pc |-> "unused", t |-> None, priv |-> FALSE, song |-> None,
          live |-> FALSE, enq |-> FALSE, idle |-> FALSE, stale |-> FALSE]
NoImp == [pc |-> "idle", left |-> 0, t |-> None, n |-> 0, since |-> 0, ids |-> {}]
NoObs == [op |-> "none", queue |-> <<>>, cur |-> None, st |-> "none",
          t |-> None, vc |-> FALSE, killed |-> FALSE]

\* ------------------------------------------------------------------------
\* Helpers
\* ------------------------------------------------------------------------

Range(s) == {s[i] : i \in 1..Len(s)}

RemoveIndex_first(s, i) == Tail(s)
\* list.pop(i - 1)
RemoveIndex(s, i) == [j \in 1..(Len(s) - 1) |-> IF j < i THEN s[j] ELSE s[j + 1]]

\* the orders random.shuffle(list) can leave the list in (line 704)
Perms_with_repeats(s) == [1..Len(s) -> Range(s)]
Perms(s) ==
  {p \in [1..Len(s) -> Range(s)] :
      \A x \in Range(s) :
        Cardinality({i \in 1..Len(s) : p[i] = x}) = Cardinality({i \in 1..Len(s) : s[i] = x})}

\* the tracks handed to voice_client.play() so far, in order
started == [i \in 1..nplays |-> adv[i].t]

\* the track the sink is rendering, None when it is neither playing nor paused
PlayingTrack == IF player.st = "none" THEN None ELSE adv[player.n].t

\* no handler is suspended between two of its accesses to the session state
EnqInFlight == {t \in Tracks : enq[t].pc \in {"conn", "presence"}}
AdvInFlight == {n \in Plays : adv[n].pc \in {"conn", "presence"}}
TimerInFlight == {n \in Plays : adv[n].pc = "tsend"}
Scheduled == {n \in Plays : adv[n].pc = "sched"}
CmdQuiescent ==
  /\ EnqInFlight = {} /\ AdvInFlight = {} /\ Scheduled = {}
  /\ skp.pc = "idle" /\ kil.pc = "idle" /\ res.pc = "idle"
Quiescent == CmdQuiescent /\ TimerInFlight = {}

Snapshot(op) == [op |-> op, queue |-> queue, cur |-> current_song_title,
                 st |-> player.st, t |-> PlayingTrack, vc |-> voice_client,
                 killed |-> killed]

\* history bookkeeping of an external event (a command or a sink notification)
EventIn(g, op, ok) ==
  /\ guild' = g
  /\ obs' = IF Quiescent THEN Snapshot(op) ELSE NoObs
  /\ pure' = (pure /\ ok /\ op \in {"enqueue", "finish", "failed"}
                   /\ (op = "enqueue" => EnqInFlight = {}))
  /\ fifo' = (fifo /\ ok /\ op \in {"enqueue", "finish", "failed", "expire"}
                   /\ (op = "enqueue" => (player.st = "playing" \/ nextId = 1)))
  /\ scenario' = IF op = "expire" /\ scenario # 4 THEN scenario
                 ELSE IF /\ scenario \in 0..3 /\ CmdQuiescent /\ ok
                         /\ op = (IF scenario < 2 THEN "enqueue" ELSE "finish")
                 THEN scenario + 1 ELSE -1

Event(op, ok) == EventIn(1, op, ok)

\* a step inside a handler that is already running
Internal == UNCHANGED ghosts

\* MusicQueue.next_song: the playlist staging queue first, then the queue
next_song_result(pq, q) == IF pq # <<>> THEN Head(pq) ELSE IF q # <<>> THEN Head(q) ELSE None
next_song_pq(pq, q) == IF pq # <<>> THEN Tail(pq) ELSE pq
next_song_q_keeps_head(pq, q) == q
next_song_q(pq, q) == IF pq # <<>> THEN q ELSE IF q # <<>> THEN Tail(q) ELSE q

\* list.clear()
clear_keeps_head(q) == IF q = <<>> THEN q ELSE <<Head(q)>>
clear(q) == <<>>

\* MusicQueue.add_song(song_info), playlist=False
add_song(q, t) == Append(q, t)

\* voice_client.play() succeeds: the client is connected and not playing
CanPlay(live) == live /\ player.st # "playing"

\* the players after voice_client.stop(): the after-callback of the ended
\* player schedules its play_song(play_next=True)
StopAdv_no_callback(a) == a
StopAdv(a) == IF player.st = "none" THEN a ELSE [a EXCEPT ![player.n].pc = "sched"]

\* the players after a successful voice_client.play(track)
PlayAdv(a, t, priv) ==
  LET a1 == IF player.st = "paused" THEN [a EXCEPT ![player.n].pc = "orphan"] ELSE a
  IN  [a1 EXCEPT ![nplays + 1] = [NoAdv EXCEPT !.pc = "playing", !.t = t, !.priv = priv]]

\* history: an Enqueue has succeeded while these idle timers were still asleep
MarkEnq(a) == [n \in Plays |-> IF a[n].pc = "armed"
                                THEN [a[n] EXCEPT !.enq = TRUE] ELSE a[n]]

\* history: kill has disconnected the call these idle timers were armed on
MarkKill(a) == [n \in Plays |-> IF a[n].pc = "armed"
                                 THEN [a[n] EXCEPT !.stale = TRUE] ELSE a[n]]

\* history: advance n ends and arms its timer on a session that is idle: the
\* sink is stopped, both queues are empty and no other handler is about to
\* start a track
ArmedIdle(n, st, q, pq) ==
  /\ st = "none" /\ q = <<>> /\ pq = <<>>
  /\ EnqInFlight = {} /\ res.pc = "idle"
  /\ \A m \in Plays \ {n} : adv[m].pc \notin {"sched", "conn", "presence"}

\* local voice_client references after the client they name was disconnected
StaleF(f) == [i \in DOMAIN f |-> [f[i] EXCEPT !.live = FALSE]]
StaleR(r) == [r EXCEPT !.live = FALSE]

\* ------------------------------------------------------------------------
\* Initial state: the module-level music_queue = MusicQueue(), no voice client
\* ------------------------------------------------------------------------

Init ==
  /\ voice_client = FALSE
  /\ player = NoPlayer
  /\ queue = <<>>
  /\ playlist_queue = <<>>
  /\ current_song_title = None
  /\ enq = [t \in Tracks |-> [pc |-> "new", live |-> FALSE]]
  /\ adv = [n \in Plays |-> NoAdv]
  /\ skp = [pc |-> "idle"]
  /\ kil = [pc |-> "idle", live |-> FALSE, alone |-> FALSE]
  /\ res = [pc |-> "idle", song |-> None, live |-> FALSE]
  /\ imp = NoImp
  /\ nextId = 1
  /\ nplays = 0
  /\ resumes = 0
  /\ exc = "none"
  /\ killed = FALSE
  /\ pure = TRUE
  /\ fifo = TRUE
  /\ scenario = 0
  /\ obs = NoObs
  /\ guild = 1

\* ------------------------------------------------------------------------
\* Playlist import: the loop of process_playlist, lines 1011-1022
\* ------------------------------------------------------------------------

\* the next j tracks the import resolves
Fresh(j) == [i \in 1..j |-> nextId + i - 1]

\* lines 1012-1022 from the head of the loop, on backlog q and staging queue
\* pq, while no await suspends: j entries are resolved one after another;
\* with a non-empty staging queue each is staged (line 1018) and stays there;
\* else the sink is busy and each is staged, appended to the backlog by
\* play_song (lines 282-293) and taken off the staging queue (line 1021).
\* The stretch ends at the await of line 1015 behind an entry that does not
\* resolve, or at line 1022 when the entries are used up.
ImportBatch(q, pq, a) ==
  \E j \in 0..imp.left, fails \in BOOLEAN :
    /\ j > 0 => (pq # <<>> \/ (voice_client /\ player.st # "none"))
    /\ nextId + j - 1 <= ImportTracks
    /\ IF fails THEN imp.left - j >= 1 ELSE imp.left - j = 0
    /\ queue' = IF pq = <<>> THEN q \o Fresh(j) ELSE q
    /\ playlist_queue' = IF pq = <<>> THEN pq ELSE pq \o Fresh(j)
    /\ adv' = IF pq = <<>> /\ j > 0 THEN MarkEnq(a) ELSE a
    /\ nextId' = nextId + j
    /\ imp' = [imp EXCEPT !.pc = IF fails THEN "run" ELSE "done",
                          !.left = IF fails THEN @ - j - 1 ELSE 0,
                          !.t = None,
                          !.ids = @ \cup Range(Fresh(j))]
    /\ exc' = "none"

\* play_song has returned to line 1021: playlist_queue.pop(0), which raises
\* IndexError on an empty list and ends the task, then the loop goes on
ImportResume(q, a) ==
  IF playlist_queue = <<>>
  THEN /\ imp' = [imp EXCEPT !.pc = "dead", !.t = None]
       /\ queue' = q
       /\ adv' = a
       /\ exc' = "imp"
       /\ UNCHANGED <<playlist_queue, nextId>>
  ELSE ImportBatch(q, Tail(playlist_queue), a)

\* ------------------------------------------------------------------------
\* Enqueue: play_song(interaction, url, ..., play_called=False), lines 262-346
\* ------------------------------------------------------------------------

\* lines 282-308: append when the sink is busy, else go on to start the track
EnqBody(t, live) ==
  IF live /\ player.st # "none"
  THEN /\ queue' = add_song(queue, t)
       /\ enq' = [enq EXCEPT ![t] = [pc |-> "done", live |-> FALSE]]
       /\ adv' = MarkEnq(adv)
  ELSE /\ enq' = [enq EXCEPT ![t] = [pc |-> "presence", live |-> live]]
       /\ UNCHANGED <<queue, adv>>

\* lines 272-280 without a voice client: connect when the user is in a
\* voice channel, else report and return
EnqConnect(t, inVoice) ==
  IF inVoice
  THEN /\ voice_client' = TRUE
       /\ killed' = FALSE
       /\ enq' = [enq EXCEPT ![t] = [pc |-> "conn", live |-> TRUE]]
  ELSE /\ enq' = [enq EXCEPT ![t] = [pc |-> "rejected", live |-> FALSE]]
       /\ UNCHANGED <<voice_client, killed>>

\* lines 262-308 up to the first suspending await
Enqueue(t) ==
  /\ t = nextId
  /\ nextId' = nextId + 1
  /\ exc' = "none"
  /\ IF voice_client
     THEN /\ Event("enqueue", TRUE)
          /\ EnqBody(t, TRUE)
          /\ UNCHANGED <<voice_client, killed>>
     ELSE \E inVoice \in BOOLEAN :
            /\ Event("enqueue", inVoice)
            /\ EnqConnect(t, inVoice)
            /\ UNCHANGED <<queue, adv>>
  /\ UNCHANGED <<imp, player, playlist_queue, current_song_title, skp, kil, res,
                 nplays, resumes>>

\* line 275 resumes after channel.connect(); when the track is the one
\* process_playlist is playing and it is appended, play_song returns without
\* another await and the import loop goes on in the same step
EnqAfterConnect(t) ==
  /\ enq[t].pc = "conn"
  /\ IF imp.pc = "play" /\ imp.t = t /\ enq[t].live /\ player.st # "none"
     THEN /\ enq' = [enq EXCEPT ![t] = [pc |-> "done", live |-> FALSE]]
          /\ ImportResume(add_song(queue, t), MarkEnq(adv))
     ELSE /\ EnqBody(t, enq[t].live)
          /\ exc' = "none"
          /\ UNCHANGED <<imp, playlist_queue, nextId>>
  /\ Internal
  /\ UNCHANGED <<voice_client, player, current_song_title, skp, kil,
                 res, nplays, resumes, killed>>

\* lines 310-327 after change_presence: record the track, start the sink
EnqPlay(t) ==
  /\ enq[t].pc = "presence"
  /\ nplays < MaxPlays
  /\ current_song_title' = t
  /\ enq' = [enq EXCEPT ![t] = [pc |-> "done", live |-> FALSE]]
  /\ IF CanPlay(enq[t].live)
     THEN /\ player' = [st |-> "playing", n |-> nplays + 1]
          /\ nplays' = nplays + 1
          /\ adv' = MarkEnq(PlayAdv(adv, t, FALSE))
          /\ exc' = "none"
     ELSE /\ exc' = "enq"
          /\ UNCHANGED <<player, nplays, adv>>
  /\ imp' = IF imp.pc = "play" /\ imp.t = t
            THEN [imp EXCEPT !.pc = IF CanPlay(enq[t].live) THEN "pop" ELSE "dead", !.t = None]
            ELSE imp
  /\ Internal
  /\ UNCHANGED <<voice_client, queue, playlist_queue, skp, kil, res, nextId,
                 resumes, killed>>

\* play, lines 357-442, with a query for which plex.search() returns neither
\* a track nor an artist: lines 367-370 return when the user is in no voice
\* channel, lines 375-379 connect when the guild has no voice client, and
\* only then lines 381-436 search and report "Couldn't find a song"; no
\* disconnect_after is armed on this path
PlayNotFound ==
  /\ \E inVoice \in BOOLEAN :
       /\ Event("notfound", inVoice)
       /\ IF inVoice /\ ~voice_client
          THEN voice_client' = TRUE /\ killed' = FALSE
          ELSE UNCHANGED <<voice_client, killed>>
  /\ exc' = "none"
  /\ UNCHANGED <<imp, player, queue, playlist_queue, current_song_title, enq, adv, skp,
                 kil, res, nextId, nplays, resumes>>

\* ------------------------------------------------------------------------
\* Playlist import, continued
\* ------------------------------------------------------------------------

\* lines 1013-1020 with an empty staging queue and an idle sink: the entry is
\* resolved and staged, and play_song starts it: lines 272-308 up to the
\* first suspending await
ImportStart(pq) ==
  LET t == nextId
  IN  /\ pq = <<>> /\ ~(voice_client /\ player.st # "none")
      /\ imp.left >= 1
      /\ t <= ImportTracks
      /\ nextId' = t + 1
      /\ playlist_queue' = <<t>>
      /\ IF voice_client
         THEN /\ enq' = [enq EXCEPT ![t] = [pc |-> "presence", live |-> TRUE]]
              /\ imp' = [imp EXCEPT !.pc = "play", !.left = @ - 1, !.t = t,
                                    !.ids = @ \cup {t}]
              /\ UNCHANGED <<voice_client, killed>>
         ELSE \E inVoice \in BOOLEAN :
                /\ EnqConnect(t, inVoice)
                /\ imp' = [imp EXCEPT !.pc = IF inVoice THEN "play" ELSE "pop",
                                      !.left = @ - 1,
                                      !.t = IF inVoice THEN t ELSE None,
                                      !.ids = @ \cup {t}]
      /\ exc' = "none"
      /\ UNCHANGED <<queue, adv>>

\* youtube(playlist_url), lines 990-1005: the import task is created and a
\* placeholder is appended to the backlog
YoutubePlaylist ==
  /\ imp.pc \in {"idle", "done", "dead"}
  /\ imp.n < MaxImports
  /\ Event("playlist", TRUE)
  /\ queue' = add_song(queue, placeholder_song)
  /\ imp' = [pc |-> "run", left |-> PlaylistLen, t |-> None, n |-> imp.n + 1,
             since |-> nextId, ids |-> {}]
  /\ exc' = "none"
  /\ UNCHANGED <<voice_client, player, playlist_queue, current_song_title, enq, adv, skp,
                 kil, res, nextId, nplays, resumes, killed>>

\* process_playlist runs from one suspending await to the next
ImportStep ==
  /\ imp.pc \in {"run", "pop"}
  /\ IF imp.pc = "pop"
     THEN /\ ImportResume(queue, adv)
          /\ UNCHANGED <<voice_client, killed, enq>>
     ELSE \/ /\ ImportBatch(queue, playlist_queue, adv)
             /\ UNCHANGED <<voice_client, killed, enq>>
          \/ ImportStart(playlist_queue)
  /\ Internal
  /\ UNCHANGED <<player, current_song_title, skp, kil, res, nplays, resumes>>

\* ------------------------------------------------------------------------
\* The sink reports the end of the track it was playing
\* ------------------------------------------------------------------------

\* the player thread runs out of data and calls wrapped_play_next (318-325)
\* lines 318-325: the after-callback takes the player's error and never
\* looks at it
wrapped_play_next_returns_on_error(a, error) == IF error THEN a ELSE StopAdv(a)
wrapped_play_next(a, error) == StopAdv(a)

\* the sink's player thread ends and calls the after-callback, which only
\* schedules: lines 319-321 create the advance coroutine and hand it to the
\* event loop, line 322 reads music_queue.queue
Finish_advances_inline ==
  /\ player.st = "playing"
  /\ \E error \in BOOLEAN :
       /\ Event(IF error THEN "failed" ELSE "finish", TRUE)
       /\ adv' = wrapped_play_next(adv, error)
  /\ player' = NoPlayer
  /\ exc' = "none"
  /\ queue' = next_song_q(playlist_queue, queue)
  /\ current_song_title' = next_song_result(playlist_queue, queue)
  /\ UNCHANGED <<imp, voice_client, playlist_queue, enq, skp,
                 kil, res, nextId, nplays, resumes, killed>>
Finish ==
  /\ player.st = "playing"
  /\ \E error \in BOOLEAN :
       /\ Event(IF error THEN "failed" ELSE "finish", TRUE)
       /\ adv' = wrapped_play_next(adv, error)
  /\ player' = NoPlayer
  /\ exc' = "none"
  /\ UNCHANGED <<imp, voice_client, queue, playlist_queue, current_song_title, enq, skp,
                 kil, res, nextId, nplays, resumes, killed>>

\* ------------------------------------------------------------------------
\* Advance: play_song(interaction, None, ..., play_called=False, play_next=True)
\* ------------------------------------------------------------------------

\* lines 295-327 with play_next: pop the next song; with none left the
\* record is cleared and FFmpegPCMAudio(None) raises; with none left behind a
\* placeholder the coroutine returns at line 301; its completion schedules
\* disconnect_after (line 321)
AdvBody(n, live) ==
  LET pq  == IF adv[n].priv THEN <<>> ELSE playlist_queue
      q   == IF adv[n].priv THEN <<>> ELSE queue
      s1  == next_song_result(pq, q)
      pq1 == next_song_pq(pq, q)
      q1  == next_song_q(pq, q)
      \* lines 298-302: a placeholder is replaced by the entry behind it
      ph  == s1 = placeholder_song
      s   == IF ph THEN next_song_result(pq1, q1) ELSE s1
      pq2 == IF ph THEN next_song_pq(pq1, q1) ELSE pq1
      q2  == IF ph THEN next_song_q(pq1, q1) ELSE q1
  IN  /\ queue' = IF adv[n].priv THEN queue ELSE q2
      /\ playlist_queue' = IF adv[n].priv THEN playlist_queue ELSE pq2
      /\ IF s = None
         THEN /\ current_song_title' = IF adv[n].priv \/ ph THEN current_song_title ELSE None
              /\ adv' = [adv EXCEPT ![n].pc = "armed", ![n].live = FALSE, ![n].enq = FALSE,
                                     ![n].idle = ArmedIdle(n, player.st, queue', playlist_queue')]
              /\ exc' = IF ph THEN "none" ELSE "adv"
         ELSE /\ adv' = [adv EXCEPT ![n].pc = "presence", ![n].song = s, ![n].live = live]
              /\ exc' = "none"
              /\ UNCHANGED current_song_title

\* lines 272-280 without a voice client
AdvConnect(n, inVoice) ==
  IF inVoice
  THEN /\ voice_client' = TRUE
       /\ killed' = FALSE
       /\ adv' = [adv EXCEPT ![n].pc = "conn", ![n].live = TRUE]
  ELSE /\ adv' = [adv EXCEPT ![n].pc = "armed", ![n].enq = FALSE,
                              ![n].idle = ArmedIdle(n, player.st, queue, playlist_queue)]
       /\ UNCHANGED <<voice_client, killed>>

AdvStart(n) ==
  /\ adv[n].pc = "sched"
  /\ IF voice_client
     THEN /\ AdvBody(n, TRUE)
          /\ UNCHANGED <<voice_client, killed>>
     ELSE \E inVoice \in BOOLEAN :
            /\ AdvConnect(n, inVoice)
            /\ exc' = "none"
            /\ UNCHANGED <<queue, playlist_queue, current_song_title>>
  /\ Internal
  /\ UNCHANGED <<imp, player, enq, skp, kil, res, nextId, nplays, resumes>>

AdvAfterConnect(n) ==
  /\ adv[n].pc = "conn"
  /\ AdvBody(n, adv[n].live)
  /\ Internal
  /\ UNCHANGED <<imp, voice_client, player, enq, skp, kil, res, nextId, nplays, resumes,
                 killed>>

\* lines 310-327 after change_presence; the coroutine's completion, with or
\* without an exception, schedules disconnect_after (line 321)
AdvPlayWith(n, starts) ==
  /\ adv[n].pc = "presence"
  /\ nplays < MaxPlays
  /\ current_song_title' = adv[n].song
  /\ LET a == [adv EXCEPT ![n].pc = "armed", ![n].song = None, ![n].live = FALSE,
                          ![n].enq = FALSE,
                          ![n].idle = /\ ~starts
                                      /\ ArmedIdle(n, player.st, queue, playlist_queue)]
     IN  IF starts
         THEN /\ player' = [st |-> "playing", n |-> nplays + 1]
              /\ nplays' = nplays + 1
              /\ adv' = PlayAdv(a, adv[n].song, FALSE)
              /\ exc' = "none"
         ELSE /\ adv' = a
              /\ exc' = "adv"
              /\ UNCHANGED <<player, nplays>>
  /\ Internal
  /\ UNCHANGED <<imp, voice_client, queue, playlist_queue, enq, skp, kil, res, nextId,
                 resumes, killed>>

AdvPlay(n) == AdvPlayWith(n, CanPlay(adv[n].live))

\* line 327 when discord.FFmpegPCMAudio(url) raises ClientException (ffmpeg
\* cannot be spawned) on a client that could have played
AdvPlayRaises(n) == CanPlay(adv[n].live) /\ AdvPlayWith(n, FALSE)

\* ------------------------------------------------------------------------
\* Idle timer: disconnect_after(interaction, music_queue), lines 181-195
\* ------------------------------------------------------------------------

IdleCheck_never(n) == FALSE
\* lines 184-186: connected, not playing, not paused, and the queue of the
\* MusicQueue this timer was given is empty
IdleCheck(n) == voice_client /\ player.st = "none" /\ (adv[n].priv \/ Len(queue) = 0)

\* lines 183-189: the sleep is over, the idle checks are made
TimerExpire(n) ==
  /\ adv[n].pc = "armed"
  /\ Event("expire", TRUE)
  /\ IF IdleCheck(n)
     THEN adv' = [adv EXCEPT ![n].pc = "tsend", ![n].live = TRUE]
     ELSE adv' = [adv EXCEPT ![n].pc = "end", ![n].enq = FALSE]
  /\ exc' = "none"
  /\ UNCHANGED <<imp, voice_client, player, queue, playlist_queue, current_song_title, enq,
                 skp, kil, res, nextId, nplays, resumes, killed>>

\* line 190: voice_client.disconnect()
TimerDisconnect(n) ==
  /\ adv[n].pc = "tsend"
  /\ LET a == [adv EXCEPT ![n].pc = "end", ![n].enq = FALSE]
     IN  IF adv[n].live
         THEN /\ voice_client' = FALSE
              /\ player' = NoPlayer
              /\ adv' = StaleF(StopAdv(a))
              /\ enq' = StaleF(enq)
              /\ kil' = StaleR(kil)
              /\ res' = StaleR(res)
         ELSE /\ adv' = a
              /\ UNCHANGED <<voice_client, player, enq, kil, res>>
  /\ exc' = "none"
  /\ Internal
  /\ UNCHANGED <<imp, queue, playlist_queue, current_song_title, skp, nextId, nplays,
                 resumes, killed>>

\* lines 190-193 when voice_client.disconnect() raises: the except clause
\* prints and sends a message, disconnect() is not called again and nothing
\* else is done about the voice client. disconnect() stops the sink before
\* it closes the connection; whether the client it failed to disconnect is
\* still the guild's voice client is the library's outcome
TimerDisconnectRaises(n) ==
  /\ adv[n].pc = "tsend" /\ adv[n].live
  /\ LET a == [adv EXCEPT ![n].pc = "end", ![n].enq = FALSE]
     IN  \E removed \in BOOLEAN :
           IF removed
           THEN /\ voice_client' = FALSE
                /\ adv' = StaleF(StopAdv(a))
                /\ enq' = StaleF(enq)
                /\ kil' = StaleR(kil)
                /\ res' = StaleR(res)
           ELSE /\ adv' = StopAdv(a)
                /\ UNCHANGED <<voice_client, enq, kil, res>>
  /\ player' = NoPlayer
  /\ exc' = "none"
  /\ Internal
  /\ UNCHANGED <<imp, queue, playlist_queue, current_song_title, skp, nextId, nplays,
                 resumes, killed>>

\* ------------------------------------------------------------------------
\* Skip: skip(interaction), lines 675-695
\* ------------------------------------------------------------------------

SkipPlaying_or_idle == voice_client /\ player.st # "paused"
\* line 680: if voice_client and voice_client.is_playing():
SkipPlaying == voice_client /\ player.st = "playing"

\* lines 676-682: stop the sink, then sleep one second
SkipCall ==
  /\ skp.pc = "idle"
  /\ Event("skip", TRUE)
  /\ IF SkipPlaying
     THEN /\ adv' = StopAdv(adv)
          /\ player' = NoPlayer
          /\ skp' = [pc |-> "sleep"]
     ELSE UNCHANGED <<adv, player, skp>>
  /\ exc' = "none"
  /\ UNCHANGED <<imp, voice_client, queue, playlist_queue, current_song_title, enq, kil, res,
                 nextId, nplays, resumes, killed>>

\* lines 683-693: pop the head and record it; the play_song call that
\* follows has play_called=True and returns at line 268 without playing
SkipResume ==
  /\ skp.pc = "sleep"
  /\ IF queue # <<>>
     THEN /\ queue' = Tail(queue)
          /\ current_song_title' = Head(queue)
     ELSE /\ current_song_title' = None
          /\ UNCHANGED queue
  /\ skp' = [pc |-> "idle"]
  /\ exc' = "none"
  /\ Internal
  /\ UNCHANGED <<imp, voice_client, player, playlist_queue, enq, adv, kil, res, nextId,
                 nplays, resumes, killed>>

\* ------------------------------------------------------------------------
\* Kill: kill(obj), lines 707-738
\* ------------------------------------------------------------------------

KillConnected_always == TRUE
\* lines 715-717: voice_client = guild.voice_client; if voice_client:
KillConnected == voice_client

\* lines 715-727: stop the sink, clear the queue, send the message
KillBody(alone) ==
  /\ IF KillConnected
     THEN /\ adv' = StopAdv(adv)
          /\ player' = NoPlayer
          /\ queue' = clear(queue)
          /\ kil' = [pc |-> "send", live |-> TRUE, alone |-> alone]
     ELSE UNCHANGED <<adv, player, queue, kil>>
  /\ exc' = "none"
  /\ UNCHANGED <<imp, voice_client, playlist_queue, current_song_title, enq, skp, res,
                 nextId, nplays, resumes, killed>>

\* the /kill command and the kill button: kill(interaction)
KillCall ==
  /\ kil.pc = "idle"
  /\ Event("kill", TRUE)
  /\ KillBody(FALSE)

\* on_voice_state_update, lines 157-176: a member's voice state changed and,
\* one second later, the bot is the only member of the channel: kill(channel)
VoiceStateUpdate ==
  /\ kil.pc = "idle"
  /\ voice_client
  /\ Event("alone", TRUE)
  /\ KillBody(TRUE)

\* line 730: voice_client.disconnect()
KillDisconnect ==
  /\ kil.pc = "send"
  /\ IF kil.live
     THEN /\ voice_client' = FALSE
          /\ player' = NoPlayer
          /\ adv' = MarkKill(StaleF(StopAdv(adv)))
          /\ enq' = StaleF(enq)
          /\ res' = StaleR(res)
     ELSE UNCHANGED <<voice_client, player, adv, enq, res>>
  /\ kil' = [pc |-> "idle", live |-> FALSE, alone |-> FALSE]
  /\ killed' = ~voice_client'
  /\ exc' = "none"
  /\ Internal
  /\ UNCHANGED <<imp, queue, playlist_queue, current_song_title, skp, nextId, nplays,
                 resumes>>

\* line 730 when voice_client.disconnect() raises: kill has no try, the
\* exception ends the handler
KillDisconnectRaises ==
  /\ kil.pc = "send" /\ kil.live
  /\ \E removed \in BOOLEAN :
       IF removed
       THEN /\ voice_client' = FALSE
            /\ adv' = MarkKill(StaleF(StopAdv(adv)))
            /\ enq' = StaleF(enq)
            /\ res' = StaleR(res)
       ELSE /\ adv' = StopAdv(adv)
            /\ UNCHANGED <<voice_client, enq, res>>
  /\ player' = NoPlayer
  /\ kil' = [pc |-> "idle", live |-> FALSE, alone |-> FALSE]
  /\ killed' = ~voice_client'
  /\ exc' = "kil"
  /\ Internal
  /\ UNCHANGED <<imp, queue, playlist_queue, current_song_title, skp, nextId, nplays,
                 resumes>>

\* ------------------------------------------------------------------------
\* Pause and Resume: pause(interaction) 643-650, resume(interaction) 652-673
\* ------------------------------------------------------------------------

Pause ==
  /\ Event("pause", TRUE)
  /\ IF voice_client /\ player.st = "playing"
     THEN player' = [player EXCEPT !.st = "paused"]
     ELSE UNCHANGED player
  /\ exc' = "none"
  /\ UNCHANGED <<imp, voice_client, queue, playlist_queue, current_song_title, enq, adv, skp,
                 kil, res, nextId, nplays, resumes, killed>>

\* lines 657-673; on an idle session with a backlog it calls
\* play_song(*music_queue.queue[0], play_called=False) without a music_queue,
\* so play_song works on a fresh MusicQueue() (line 270) and queue[0] stays;
\* when queue[0] is a placeholder that play_song returns at line 301
\* line 665: voice_client.is_paused()
ResumePaused_never == FALSE
ResumePaused == player.st = "paused"

ResumeCall ==
  /\ res.pc = "idle"
  /\ Event("resume", TRUE)
  /\ IF ~voice_client \/ player.st = "playing"
     THEN UNCHANGED <<player, res, resumes>>
     ELSE IF ResumePaused
     THEN /\ player' = [player EXCEPT !.st = "playing"]
          /\ UNCHANGED <<res, resumes>>
     ELSE IF queue # <<>> /\ Head(queue) # placeholder_song
     THEN /\ resumes < MaxResumes
          /\ resumes' = resumes + 1
          /\ res' = [pc |-> "presence", song |-> Head(queue), live |-> TRUE]
          /\ UNCHANGED player
     ELSE UNCHANGED <<player, res, resumes>>
  /\ exc' = "none"
  /\ UNCHANGED <<imp, voice_client, queue, playlist_queue, current_song_title, enq, adv, skp,
                 kil, nextId, nplays, killed>>

\* lines 310-327 of the play_song that resume called: the track is recorded
\* on the fresh MusicQueue and handed to the sink
ResumePlay ==
  /\ res.pc = "presence"
  /\ nplays < MaxPlays
  /\ IF CanPlay(res.live)
     THEN /\ player' = [st |-> "playing", n |-> nplays + 1]
          /\ nplays' = nplays + 1
          /\ adv' = PlayAdv(adv, res.song, TRUE)
          /\ exc' = "none"
     ELSE /\ exc' = "res"
          /\ UNCHANGED <<player, nplays, adv>>
  /\ res' = [pc |-> "idle", song |-> None, live |-> FALSE]
  /\ Internal
  /\ UNCHANGED <<imp, voice_client, queue, playlist_queue, current_song_title, enq, skp, kil,
                 nextId, resumes, killed>>

\* ------------------------------------------------------------------------
\* Backlog commands: shuffle 699-705, remove_song 755-763, clear_queue 747-751
\* ------------------------------------------------------------------------

ShuffleIn(g) ==
  /\ EventIn(g, "shuffle", TRUE)
  /\ IF Len(queue) > 0
     THEN queue' \in Perms(queue)
     ELSE UNCHANGED queue
  /\ exc' = "none"
  /\ UNCHANGED <<imp, voice_client, player, playlist_queue, current_song_title, enq, adv,
                 skp, kil, res, nextId, nplays, resumes, killed>>

RemoveSongIn(g, song_number) ==
  /\ EventIn(g, "remove", TRUE)
  /\ IF Len(queue) >= song_number /\ song_number > 0
     THEN queue' = RemoveIndex(queue, song_number)
     ELSE UNCHANGED queue
  /\ exc' = "none"
  /\ UNCHANGED <<imp, voice_client, player, playlist_queue, current_song_title, enq, adv,
                 skp, kil, res, nextId, nplays, resumes, killed>>

ClearQueueIn(g) ==
  /\ EventIn(g, "clear", TRUE)
  /\ queue' = clear(queue)
  /\ exc' = "none"
  /\ UNCHANGED <<imp, voice_client, player, playlist_queue, current_song_title, enq, adv,
                 skp, kil, res, nextId, nplays, resumes, killed>>

\* the song numbers users pass to remove_song
SongNumbers == (0 - 1)..MaxTracks

Shuffle == ShuffleIn(1)
RemoveSong(song_number) == RemoveSongIn(1, song_number)
ClearQueue == ClearQueueIn(1)

\* ------------------------------------------------------------------------
\* Commands issued in guild 2
\* ------------------------------------------------------------------------

\* play_song(play_called=False) in guild 2 while guild 2's own voice client
\* is playing or paused: lines 282-293 append to the module's music_queue
OtherEnqueue(t) ==
  /\ t = nextId
  /\ nextId' = nextId + 1
  /\ EventIn(2, "enqueue", TRUE)
  /\ queue' = add_song(queue, t)
  /\ enq' = [enq EXCEPT ![t] = [pc |-> "done", live |-> FALSE]]
  /\ exc' = "none"
  /\ UNCHANGED <<imp, voice_client, player, playlist_queue, current_song_title, adv, skp,
                 kil, res, nplays, resumes, killed>>

OtherShuffle == ShuffleIn(2)
OtherRemoveSong(song_number) == RemoveSongIn(2, song_number)
OtherClearQueue == ClearQueueIn(2)

OtherGuildCommand ==
  \/ \E t \in Tracks : OtherEnqueue(t)
  \/ OtherShuffle
  \/ \E song_number \in SongNumbers : OtherRemoveSong(song_number)
  \/ OtherClearQueue

\* ------------------------------------------------------------------------
\* Specification
\* ------------------------------------------------------------------------

Next ==
  \/ \E t \in 1..FullTracks : Enqueue(t)
  \/ \E t \in Tracks : EnqAfterConnect(t)
  \/ \E t \in Tracks : EnqPlay(t)
  \/ Finish
  \/ \E n \in Plays : AdvStart(n)
  \/ \E n \in Plays : AdvAfterConnect(n)
  \/ \E n \in Plays : AdvPlay(n)
  \/ \E n \in Plays : TimerExpire(n)
  \/ \E n \in Plays : TimerDisconnect(n)
  \/ SkipCall
  \/ SkipResume
  \/ KillCall
  \/ VoiceStateUpdate
  \/ KillDisconnect
  \/ Pause
  \/ ResumeCall
  \/ ResumePlay
  \/ Shuffle
  \/ \E song_number \in SongNumbers : RemoveSong(song_number)
  \/ ClearQueue

Spec == Init /\ [][Next]_vars

\* the users only enqueue; the sink and the idle timers do the rest
NextSeq ==
  \/ \E t \in 1..SeqTracks : Enqueue(t)
  \/ \E t \in Tracks : EnqAfterConnect(t)
  \/ \E t \in Tracks : EnqPlay(t)
  \/ Finish
  \/ \E n \in Plays : AdvStart(n)
  \/ \E n \in Plays : AdvAfterConnect(n)
  \/ \E n \in Plays : AdvPlay(n)
  \/ \E n \in Plays : TimerExpire(n)
  \/ \E n \in Plays : TimerDisconnect(n)

SpecSeq == Init /\ [][NextSeq]_vars

\* enqueue, skip and the sink's notification, each issued only when every
\* handler of the commands before it has returned
NextTurns ==
  \/ Quiescent /\ \E t \in 1..BacklogTracks : Enqueue(t)
  \/ Quiescent /\ SkipCall
  \/ Quiescent /\ Finish
  \/ \E t \in Tracks : EnqAfterConnect(t)
  \/ \E t \in Tracks : EnqPlay(t)
  \/ \E n \in Plays : AdvStart(n)
  \/ \E n \in Plays : AdvPlay(n)
  \/ SkipResume

SpecTurns == Init /\ [][NextTurns]_vars

\* SpecSeq with kill and with disconnects that fail
NextTeardown ==
  \/ NextSeq
  \/ KillCall
  \/ KillDisconnect
  \/ KillDisconnectRaises
  \/ \E n \in Plays : TimerDisconnectRaises(n)

SpecTeardown == Init /\ [][NextTeardown]_vars

\* SpecSearch where a play command that finds nothing is issued on a
\* disconnected session, with the scheduling asyncio gives: a coroutine
\* whose await has completed is resumed, and asyncio.sleep(600) ends
NextSearchLive ==
  \/ NextSeq
  \/ ~voice_client /\ PlayNotFound

Scheduling ==
  /\ WF_vars(\E t \in Tracks : EnqAfterConnect(t))
  /\ WF_vars(\E t \in Tracks : EnqPlay(t))
  /\ WF_vars(\E n \in Plays : AdvStart(n))
  /\ WF_vars(\E n \in Plays : AdvAfterConnect(n))
  /\ WF_vars(\E n \in Plays : AdvPlay(n))
  /\ WF_vars(\E n \in Plays : TimerExpire(n))
  /\ WF_vars(\E n \in Plays : TimerDisconnect(n))

SpecSearchLive == Init /\ [][NextSearchLive]_vars /\ Scheduling

\* SpecSeq with starts of the sink that fail
NextStartFail ==
  \/ NextSeq
  \/ \E n \in Plays : AdvPlayRaises(n)

SpecStartFail == Init /\ [][NextStartFail]_vars

\* SpecSeq with play commands whose query finds nothing
NextSearch ==
  \/ NextSeq
  \/ PlayNotFound

SpecSearch == Init /\ [][NextSearch]_vars

\* every command but Resume, whose idle path plays queue[0] a second time
NextNoResume ==
  \/ \E t \in 1..FullTracks : Enqueue(t)
  \/ \E t \in Tracks : EnqAfterConnect(t)
  \/ \E t \in Tracks : EnqPlay(t)
  \/ Finish
  \/ \E n \in Plays : AdvStart(n)
  \/ \E n \in Plays : AdvAfterConnect(n)
  \/ \E n \in Plays : AdvPlay(n)
  \/ \E n \in Plays : TimerExpire(n)
  \/ \E n \in Plays : TimerDisconnect(n)
  \/ SkipCall
  \/ SkipResume
  \/ KillCall
  \/ VoiceStateUpdate
  \/ KillDisconnect
  \/ Pause
  \/ Shuffle
  \/ \E song_number \in SongNumbers : RemoveSong(song_number)
  \/ ClearQueue

SpecNoResume == Init /\ [][NextNoResume]_vars

\* one track plays on while users enqueue and edit the backlog
NextBacklog ==
  \/ \E t \in 1..BacklogTracks : Enqueue(t)
  \/ \E t \in Tracks : EnqAfterConnect(t)
  \/ \E t \in Tracks : EnqPlay(t)
  \/ Pause
  \/ ResumeCall
  \/ Shuffle
  \/ \E song_number \in SongNumbers : RemoveSong(song_number)
  \/ ClearQueue

SpecBacklog == Init /\ [][NextBacklog]_vars

\* guild 1 enqueues and plays while users of guild 2 issue commands
NextGuilds ==
  \/ \E t \in 1..FullTracks : Enqueue(t)
  \/ \E t \in Tracks : EnqAfterConnect(t)
  \/ \E t \in Tracks : EnqPlay(t)
  \/ Finish
  \/ \E n \in Plays : AdvStart(n)
  \/ \E n \in Plays : AdvAfterConnect(n)
  \/ \E n \in Plays : AdvPlay(n)
  \/ \E n \in Plays : TimerExpire(n)
  \/ \E n \in Plays : TimerDisconnect(n)
  \/ \E t \in 1..FullTracks : OtherEnqueue(t)
  \/ OtherShuffle
  \/ \E song_number \in SongNumbers : OtherRemoveSong(song_number)
  \/ OtherClearQueue

SpecGuilds == Init /\ [][NextGuilds]_vars

\* users enqueue tracks and playlists on a call that stays connected
NextImport ==
  \/ \E t \in 1..ImportTracks : Enqueue(t)
  \/ \E t \in Tracks : EnqAfterConnect(t)
  \/ \E t \in Tracks : EnqPlay(t)
  \/ Finish
  \/ \E n \in Plays : AdvStart(n)
  \/ \E n \in Plays : AdvPlay(n)
  \/ YoutubePlaylist
  \/ ImportStep

SpecImport == Init /\ [][NextImport]_vars

\* ------------------------------------------------------------------------
\* Properties
\* ------------------------------------------------------------------------

Count(b) == IF b THEN 1 ELSE 0

\* mutating commands that have touched the session state and are suspended
\* before their next access to it
InFlight ==
  Cardinality(EnqInFlight) + Cardinality(AdvInFlight)
    + Count(skp.pc # "idle") + Count(kil.pc # "idle") + Count(res.pc # "idle")

\* C1: the mutating commands of one call are totally ordered: none of them
\* starts to read or write the queue, the current-track record or the voice
\* client while another one is suspended between two of its own accesses.
C1_TotallyOrdered == InFlight <= 1

\* the track a suspended Enqueue or advance is about to start
InHand ==
  IF \E n \in Plays : adv[n].pc = "presence"
  THEN <<adv[CHOOSE n \in Plays : adv[n].pc = "presence"].song>>
  ELSE IF EnqInFlight # {}
  THEN <<CHOOSE t \in Tracks : t \in EnqInFlight>>
  ELSE <<>>

Times(t) == Cardinality({i \in 1..nplays : started[i] = t})

\* C2: while users only enqueue and the sink only reports finished tracks,
\* no enqueued track is lost: each one is in the backlog, is about to be
\* started, or has been started, and none is started twice.
C2_NoTrackLost ==
  pure => \A t \in 1..(nextId - 1) :
            /\ Times(t) <= 1
            /\ \/ Times(t) = 1
               \/ t \in Range(queue)
               \/ t \in EnqInFlight
               \/ \E n \in Plays : adv[n].pc = "presence" /\ adv[n].song = t

\* C3: there is one current-track record, and whenever the sink is playing
\* or paused that record is set.
C3_PlayingHasCurrent ==
  player.st \in {"playing", "paused"} => current_song_title # None

\* C4: when every Enqueue after the first is made while a track plays and no
\* other command is issued, the tracks started so far, the track about to be
\* started and the backlog are, in this order, the enqueued tracks in call order.
C4_FifoOrder ==
  fifo => started \o InHand \o queue = [i \in 1..(nextId - 1) |-> i]

\* C5: the script Enqueue(A), Enqueue(B) while A plays, finished(A),
\* finished(B), each step handled to its end before the next: A is current
\* and playing; then the backlog is [B]; then B is current and playing with
\* an empty backlog; then the session is idle, connected, without a current
\* track, with an empty backlog and with the idle timer of B's play armed.
C5_Scenario ==
  CmdQuiescent =>
    /\ scenario = 1 => /\ current_song_title = 1 /\ player.st = "playing"
                       /\ PlayingTrack = 1 /\ queue = <<>>
    /\ scenario = 2 => /\ current_song_title = 1 /\ player.st = "playing"
                       /\ PlayingTrack = 1 /\ queue = <<2>>
    /\ scenario = 3 => /\ current_song_title = 2 /\ player.st = "playing"
                       /\ PlayingTrack = 2 /\ queue = <<>>
    /\ scenario = 4 => /\ current_song_title = None /\ player.st = "none"
                       /\ queue = <<>> /\ voice_client
                       /\ \E n \in Plays : adv[n].t = 2 /\ adv[n].pc = "armed"

\* the script has run to its end
C5_ScenarioDone == scenario = 4 /\ CmdQuiescent

\* C6: Skip issued while a track plays and the backlog is not empty, once it
\* and the advance it causes are over: the head of the backlog is the
\* current, playing track and the backlog is what followed the head.
C6_SkipPopsHead ==
  (obs.op = "skip" /\ obs.st = "playing" /\ obs.queue # <<>> /\ Quiescent) =>
    /\ queue = Tail(obs.queue)
    /\ player.st = "playing"
    /\ PlayingTrack = Head(obs.queue)
    /\ current_song_title = Head(obs.queue)

\* C7: a playback-finished advance that starts after Kill has completed
\* changes nothing and raises nothing: no reconnect, no track started, the
\* queue and the current-track record as Kill left them.
C7_FinishedAfterKillNoop ==
  [][\A n \in Plays :
       (adv[n].pc \in {"sched", "conn"} /\ adv'[n] # adv[n] /\ killed) =>
          /\ voice_client' = voice_client
          /\ player' = player
          /\ queue' = queue
          /\ playlist_queue' = playlist_queue
          /\ current_song_title' = current_song_title
          /\ exc' = "none"]_vars

\* C8: when Kill on a connected call completes, the sink is stopped, the
\* queue and the playlist staging queue are empty and the call is disconnected.
C8_KillLeavesNothing ==
  [][(kil.pc = "send" /\ kil'.pc = "idle") =>
        /\ player'.st = "none"
        /\ queue' = <<>>
        /\ playlist_queue' = <<>>
        /\ ~voice_client']_vars

\* C9: a Kill on a call that an earlier Kill has disconnected raises nothing
\* and leaves the queue, the current-track record, the sink and the
\* connection state as they were.
C9_KillIdempotent ==
  [][(KillCall /\ killed) =>
        /\ queue' = queue
        /\ playlist_queue' = playlist_queue
        /\ current_song_title' = current_song_title
        /\ player' = player
        /\ voice_client' = voice_client
        /\ exc' = "none"]_vars

\* a second Kill has been handled on a killed call
C9_SecondKillHandled == obs.op = "kill" /\ obs.killed /\ ~voice_client /\ kil.pc = "idle"

\* C10: an idle timer that was armed before an Enqueue succeeded does not
\* disconnect the call when it expires.
C10_EnqueueDisarmsTimer ==
  [][\A n \in Plays :
       (adv[n].pc = "tsend" /\ adv'[n].pc = "end" /\ adv[n].enq) =>
          voice_client' = voice_client]_vars

\* C11: an idle timer that was armed on an idle session and expires with no
\* Enqueue having succeeded since then goes on to disconnect unless the call
\* is already disconnected, and when its disconnect returns the connection
\* it found idle is closed.
C11_IdleExpiryDisconnects ==
  [][\A n \in Plays :
       /\ (adv[n].pc = "armed" /\ adv[n].idle /\ ~adv[n].enq /\ adv'[n].pc # "armed")
             => (adv'[n].pc = "tsend" \/ ~voice_client)
       /\ (adv[n].pc = "tsend" /\ adv[n].idle /\ adv'[n].pc = "end")
             => (~voice_client' \/ ~adv[n].live)]_vars

\* an idle timer has expired on a connected call and has disconnected it
C11_TimerDisconnected ==
  /\ obs.op = "expire" /\ obs.vc /\ obs.st = "none" /\ obs.queue = <<>>
  /\ ~voice_client
  /\ \E n \in Plays : adv[n].pc = "end" /\ adv[n].idle

\* C12: while guild 1 has a call, a command issued in guild 2 leaves the backlog, the current-track
\* record and the pending advances and idle timers of guild 1 as they were.
C12_GuildsIsolated ==
  [][(OtherGuildCommand /\ voice_client) =>
        /\ queue' = queue
        /\ playlist_queue' = playlist_queue
        /\ current_song_title' = current_song_title
        /\ adv' = adv]_vars

\* C13: one queue object serves the call: no track is ever started, advanced
\* or timed out against a MusicQueue other than the module's music_queue.
C13_OneQueueObject ==
  /\ res.pc = "idle"
  /\ \A n \in Plays : ~adv[n].priv

\* C14: a placeholder is never the current-track record and is never handed
\* to voice_client.play().
C14_PlaceholderNeverPlayed ==
  /\ current_song_title # placeholder_song
  /\ \A n \in Plays : adv[n].t # placeholder_song

\* C15: while the placeholder of the first import is in the backlog, every
\* track that import has resolved and that waits in the backlog is ahead of
\* every track a user enqueued after the placeholder.
C15_ResolvedTakesSlot ==
  (imp.n = 1 /\ placeholder_song \in Range(queue)) =>
    \A i, j \in DOMAIN queue :
      (/\ queue[i] \in imp.ids
       /\ queue[j] \notin imp.ids \cup {placeholder_song}
       /\ queue[j] >= imp.since) => i < j

\* C16: the bot is found alone in its voice channel while a track plays:
\* once the kill this causes is over, with no idle timer having expired and
\* no other command issued meanwhile, the call is disconnected, the sink is
\* stopped and the backlog is empty, whatever it held.
C16_AloneDisconnects ==
  (obs.op = "alone" /\ obs.st = "playing" /\ Quiescent) =>
    /\ ~voice_client
    /\ player.st = "none"
    /\ queue = <<>>

\* C17: Skip issued while the current track is paused, once it and the
\* advance it causes are over: the paused track is stopped, the head of the
\* backlog has left the backlog and is the current track.
C17_SkipWhilePaused ==
  (obs.op = "skip" /\ obs.st = "paused" /\ obs.queue # <<>> /\ Quiescent) =>
    /\ PlayingTrack # obs.t
    /\ queue = Tail(obs.queue)
    /\ current_song_title = Head(obs.queue)

\* C18: Skip issued while a track plays and the backlog is empty, once it
\* and the advance it causes are over: the sink is stopped, the call is
\* still connected, the current-track record is cleared, the backlog is
\* empty and the idle timer of the skipped play is armed.
C18_SkipEmptyBacklog ==
  (obs.op = "skip" /\ obs.st = "playing" /\ obs.queue = <<>> /\ Quiescent) =>
    /\ player.st = "none"
    /\ voice_client
    /\ current_song_title = None
    /\ queue = <<>>
    /\ \E n \in Plays : adv[n].t = obs.t /\ adv[n].pc = "armed"

\* such a Skip and its advance are over
C18_SkippedToIdle ==
  /\ obs.op = "skip" /\ obs.st = "playing" /\ obs.queue = <<>> /\ Quiescent
  /\ obs.cur # None

\* C19: Skip issued when the sink is neither playing nor paused does
\* nothing but report: the queue, the current-track record, the sink, the
\* connection and the pending advances and timers stay as they were, and
\* no skip is left running.
C19_SkipNothingPlaying ==
  [][(SkipCall /\ player.st = "none") =>
        /\ queue' = queue
        /\ playlist_queue' = playlist_queue
        /\ current_song_title' = current_song_title
        /\ voice_client' = voice_client
        /\ player' = player
        /\ adv' = adv
        /\ skp'.pc = "idle"
        /\ exc' = "none"]_vars

\* a Skip was rejected on a connected, idle call that has a current-track record
C19_SkipRejected ==
  /\ obs.op = "skip" /\ obs.st = "none" /\ obs.vc /\ obs.cur # None
  /\ skp.pc = "idle" /\ current_song_title = obs.cur

\* C20: remove_song with a song number in 1..len(queue) takes out exactly
\* that entry and keeps the others in their order; with any other number
\* the queue is left as it was; in both cases the current-track record and
\* the sink are untouched and nothing is raised.
C20_RemoveAt ==
  [][\A k \in SongNumbers :
       RemoveSong(k) =>
         /\ queue' = IF k \in 1..Len(queue)
                     THEN SubSeq(queue, 1, k - 1) \o SubSeq(queue, k + 1, Len(queue))
                     ELSE queue
         /\ current_song_title' = current_song_title
         /\ player' = player
         /\ exc' = "none"]_vars

\* the middle entry of a three-entry backlog has been removed
C20_RemovedMiddle ==
  /\ obs.op = "remove" /\ Len(obs.queue) = 3
  /\ queue = <<obs.queue[1], obs.queue[3]>>

\* C21: shuffle leaves the multiset of backlog entries as it was (only their
\* order may change), leaves the current-track record and the sink's
\* playing/paused state as they were, and changes nothing at all when the
\* backlog is empty.
C21_ShuffleFrame ==
  [][Shuffle =>
       /\ Len(queue') = Len(queue)
       /\ \A x \in Range(queue) \cup Range(queue') :
            Cardinality({i \in 1..Len(queue') : queue'[i] = x})
              = Cardinality({i \in 1..Len(queue) : queue[i] = x})
       /\ current_song_title' = current_song_title
       /\ player' = player
       /\ playlist_queue' = playlist_queue
       /\ (queue = <<>> => queue' = queue)]_vars

\* a backlog of three entries has been shuffled into another order
C21_Shuffled ==
  /\ obs.op = "shuffle" /\ Len(obs.queue) = 3
  /\ queue # obs.queue /\ Range(queue) = Range(obs.queue)

\* C22: pause on a playing track followed by resume is back at playing the
\* same track (the sink keeps its player) with the current-track record and
\* the backlog as they were; pause on a paused track and resume on a playing
\* track change nothing.
C22_PauseResume ==
  [][/\ (Pause /\ player.st = "playing") =>
          /\ player' = [player EXCEPT !.st = "paused"]
          /\ UNCHANGED <<queue, playlist_queue, current_song_title, voice_client>>
     /\ (ResumeCall /\ player.st = "paused") =>
          /\ player' = [player EXCEPT !.st = "playing"]
          /\ UNCHANGED <<queue, playlist_queue, current_song_title, voice_client, res>>
     /\ (Pause /\ player.st = "paused") =>
          UNCHANGED <<player, queue, playlist_queue, current_song_title, voice_client>>
     /\ (ResumeCall /\ player.st = "playing") =>
          UNCHANGED <<player, queue, playlist_queue, current_song_title, voice_client,
                      res>>]_vars

\* a track paused over a backlog of two has been resumed
C22_Resumed ==
  /\ obs.op = "resume" /\ obs.st = "paused" /\ Len(obs.queue) = 2
  /\ player.st = "playing" /\ PlayingTrack = obs.t
  /\ queue = obs.queue /\ current_song_title = obs.cur

\* C23: pause and resume on a session whose sink is neither playing nor
\* paused (connected and idle, or disconnected) are no-ops whatever the
\* backlog holds, so no track is ever handed to the sink by a resume
\* command: every started track was started by an enqueue or by the
\* advance.
C23_IdleResumeNoop == \A n \in Plays : adv[n].pc # "unused" => ~adv[n].priv

\* C24: while only enqueue commands have been issued (no track has finished
\* and no idle timer exists), however their handlers interleave: no start
\* of the sink raises, every accepted track whose handler has returned is
\* the playing track or an entry of the backlog, and the current-track
\* record names the playing track.
C24_ConcurrentEnqueues ==
  (\A n \in Plays : adv[n].pc \in {"unused", "playing"}) =>
    /\ exc # "enq"
    /\ \A t \in Tracks :
         enq[t].pc = "done" => (PlayingTrack = t \/ t \in Range(queue))
    /\ player.st = "playing" => current_song_title = PlayingTrack

\* C25: whenever the sink is playing, the current-track record that the
\* queue command reports is the track the sink was last started with, after
\* any sequence of enqueue, skip and playback-finished events.
C25_RecordIsPlayingTrack ==
  player.st = "playing" => current_song_title = PlayingTrack

\* C26: a playback-finished notification that carries an error, arriving
\* when no handler is in progress, runs the advance a notification without
\* error runs: once it is handled the head of the backlog has been taken
\* out, recorded and started, or with an empty backlog the sink is idle and
\* the record cleared; the track that ended is not started again.
C26_ErrorAdvances ==
  (obs.op \in {"failed", "finish"} /\ Quiescent) =>
    /\ PlayingTrack # obs.t
    /\ Times(obs.t) = 1
    /\ IF obs.queue # <<>>
       THEN /\ player.st = "playing" /\ PlayingTrack = Head(obs.queue)
            /\ queue = Tail(obs.queue) /\ current_song_title = Head(obs.queue)
       ELSE /\ player.st = "none" /\ queue = <<>> /\ current_song_title = None

\* a track ended with an error over a backlog of two and the head was started
C26_FailedAdvanced ==
  /\ obs.op = "failed" /\ Quiescent /\ Len(obs.queue) = 2
  /\ player.st = "playing" /\ PlayingTrack = Head(obs.queue)

\* C27: when the advance's start of the sink has just raised and no handler
\* is in progress, the session is not left idle with tracks in the backlog:
\* either a track is playing or paused, or the backlog is empty.
C27_StartFailureAdvances ==
  (exc = "adv" /\ Quiescent /\ player.st = "none") =>
    queue = <<>> /\ playlist_queue = <<>>

\* C28: a play command whose query resolves to no track leaves the queue,
\* the current-track record, the sink and the voice connection as they were.
C28_NotFoundChangesNothing ==
  [][PlayNotFound =>
       UNCHANGED <<queue, playlist_queue, current_song_title, player,
                   voice_client>>]_vars

\* C29: when the voice disconnect of a teardown (the idle timer's or
\* kill's) fails, the handler still leaves the session disconnected: the
\* guild has no voice client once the failed disconnect has been handled.
C29_FailedDisconnectStillDisconnects ==
  [][((\E n \in Plays : TimerDisconnectRaises(n)) \/ KillDisconnectRaises)
       => ~voice_client']_vars

\* C30: the idle timer disconnects a live voice client only while the sink
\* is neither playing nor paused and both the queue and the playlist staging
\* queue are empty, also when an enqueue was handled after the timer's idle
\* check.
C30_TimerDisconnectsOnlyIdle ==
  [][\A n \in Plays :
       (TimerDisconnect(n) /\ adv[n].live) =>
         player.st = "none" /\ queue = <<>> /\ playlist_queue = <<>>]_vars

\* C31: an idle timer that was armed before a kill disconnected the call
\* never disconnects a voice client that exists after that kill: when it
\* expires it leaves the new connection alone.
C31_StaleTimerSilent ==
  [][\A n \in Plays :
       (TimerDisconnect(n) /\ adv[n].stale) => voice_client' = voice_client]_vars

\* C32: in every reachable state at most one idle timer (a disconnect_after
\* that is asleep or past its check and about to disconnect) is outstanding.
C32_OneTimer ==
  Cardinality({n \in Plays : adv[n].pc \in {"armed", "tsend"}}) <= 1

\* C33: a session that is connected, idle with an empty backlog and no
\* handler in progress, and that gets no further command, is eventually
\* disconnected: no behaviour ends up connected, idle and empty for ever.
IdleConnected ==
  /\ voice_client /\ player.st = "none"
  /\ queue = <<>> /\ playlist_queue = <<>>
  /\ Quiescent

C33_IdleEventuallyDisconnected == <>[]~IdleConnected

\* C34: the step in which the sink's player ends and its after-callback runs
\* writes nothing to the queue, the staging queue, the current-track record
\* or the guild's voice client; it leaves the advance scheduled on the event
\* loop, and the advance does the writing in a later step.
C34_CallbackOnlySchedules ==
  [][Finish =>
       /\ UNCHANGED <<queue, playlist_queue, current_song_title, voice_client>>
       /\ adv'[player.n].pc = "sched"
       /\ \A n \in Plays \ {player.n} : adv'[n] = adv[n]]_vars

\* a track has ended over a backlog of two and its advance has not run yet
C34_AdvanceScheduled ==
  /\ obs.op \in {"finish", "failed"} /\ Len(obs.queue) = 2
  /\ Scheduled # {} /\ queue = obs.queue /\ current_song_title = obs.cur

\* C35: whenever a step starts a track on the sink, that track is in neither
\* the queue nor the staging queue after the step and it has not been
\* started before.
C35_StartedLeavesBacklog ==
  [][nplays' = nplays + 1 =>
       /\ adv'[nplays'].t \notin Range(queue') \cup Range(playlist_queue')
       /\ \A i \in 1..nplays : adv[i].t # adv'[nplays'].t]_vars

\* C36: an advance that finds nothing to play (it ends in the step in which
\* it looked at the backlog) issues no start and ends without an error.
C36_EmptyAdvanceEndsQuietly ==
  [][\A n \in Plays :
       (adv[n].pc \in {"sched", "conn"} /\ adv'[n].pc = "armed") =>
         exc' = "none" /\ nplays' = nplays]_vars

\* C37: during a playlist import the loop never pops the staging queue
\* while it is empty (the task is not ended by an IndexError), and no entry
\* it resolved is started more than once or started and also queued.
C37_ImportOnce ==
  /\ [][~(imp.pc = "pop" /\ imp'.pc = "dead")]_vars
  /\ [](\A t \in imp.ids :
          Times(t) + Cardinality({i \in DOMAIN queue : queue[i] = t}) <= 1)

\* C38: once every handler has returned and the sink is neither playing nor
\* paused, no playable track is left in the queue or in the staging queue.
C38_NothingStranded ==
  (Quiescent /\ player.st = "none") =>
    /\ \A i \in DOMAIN queue : queue[i] = placeholder_song
    /\ playlist_queue = <<>>

\* C39: clear_queue empties the queue and leaves the current-track record,
\* the sink's playing/paused state, the staging queue and the voice
\* connection as they were; when the track that was playing then ends with
\* no command in between, its notification finds the queue empty.
C39_ClearQueueFrame ==
  [][/\ ClearQueue =>
          /\ queue' = <<>>
          /\ UNCHANGED <<current_song_title, player, playlist_queue, voice_client>>
     /\ (Finish /\ obs.op = "clear" /\ obs.st = "playing") =>
          queue = <<>> /\ PlayingTrack = obs.t]_vars

\* a non-empty queue has been cleared under a playing track
C39_ClearedWhilePlaying ==
  /\ obs.op = "clear" /\ obs.st = "playing" /\ obs.queue # <<>>
  /\ queue = <<>> /\ player.st = "playing" /\ PlayingTrack = obs.t
  /\ current_song_title = obs.cur

TypeOK ==
  /\ voice_client \in BOOLEAN
  /\ player.st \in {"none", "playing", "paused"}
  /\ player.n \in 0..MaxPlays
  /\ (player.st = "none") = (player.n = 0)
  /\ (player.st # "none") => voice_client /\ adv[player.n].pc = "playing"
  /\ current_song_title \in Tracks \cup {None, placeholder_song}
  /\ nplays \in 0..MaxPlays
  /\ exc \in {"none", "enq", "adv", "res", "imp", "kil"}
  /\ imp.pc \in {"idle", "run", "play", "pop", "done", "dead"}
  /\ imp.left \in 0..PlaylistLen
  /\ guild \in Guilds

====
